---------------------------- MODULE Spec2Model ----------------------------
(***************************************************************************)
(* Model of the transaction engine of trx_service: the Ledger              *)
(* (src/src/trx_engine/ledger.rs), the Account operations                  *)
(* (src/src/trx_engine/account.rs) and the stored Transaction              *)
(* (src/src/trx_engine/transaction.rs).                                    *)
(*                                                                         *)
(* Decimal amounts are modelled as integers (one unit = one smallest       *)
(* decimal step); Option<Decimal> is the empty sequence (None) or a        *)
(* one-element sequence (Some(a)).  Decimal overflow (a panic of the       *)
(* arithmetic library) is outside the bounds explored here.                *)
(***************************************************************************)
EXTENDS Integers, Sequences, FiniteSets, TLC

\* ------------------------------------------------------------- bounds ----
MaxClient == 2
MaxTx == 2
MaxAmount == 1
MaxLines == 3

Clients == 1..MaxClient
TxIds == 1..MaxTx

\* Option<Decimal>
None == << >>
Some(a) == << a >>
IsSome(o) == Len(o) = 1
Unwrap(o) == o[1]

\* The amounts an input line may carry: absent, negative, zero, positive.
Amounts == {None} \cup {Some(a) : a \in (0 - 1)..MaxAmount}

\* transaction.rs: enum Type
Type == {"Deposit", "Withdrawal", "Dispute", "Resolve", "Chargeback"}

\* transaction.rs: enum State
State == {"Ok", "Disputed", "Chargeback"}

\* errors.rs: enum EngineError
EngineError ==
    {"InsufficientFunds", "NegativeAmount", "TrxAlreadyProcessed",
     "TrxInvalidAmount", "TrxNotFound", "TrxNotInDisputableState",
     "TrxNotInDispute", "TrxNotDisputable", "TrxClientIdInconsistency",
     "AccountLocked"}

\* transaction.rs: struct Input
Input ==
    [transaction_type : Type, client : Clients, tx : TxIds, amount : Amounts]

VARIABLES
    accounts,      \* Ledger.accounts : HashMap<u16, Account>
    trx,           \* Ledger.trx : HashMap<u32, Transaction>
    input,         \* the Input of the last process_trx call
    result,        \* its result: "Ok", an EngineError, or "None" before any call
    prevAccounts,  \* Ledger.accounts when that call started
    prevTrx,       \* Ledger.trx when that call started
    seenClients,   \* the client ids of all Inputs passed to process_trx so far
    acceptedCount, \* per tx id, the accepted Deposits and Withdrawals so far
    rdr,           \* process_transactions_file: what rdr.deserialize() yields
    pos,           \* the number of lines the for loop has taken from rdr
    pc,            \* where process_transactions_file is: "idle", "loop", "done"
    output,        \* the accounts serialized to the writer
    passed         \* the Inputs handed to process_trx so far, in call order

ledgerVars ==
    << accounts, trx, input, result, prevAccounts, prevTrx, seenClients,
       acceptedCount >>
driverVars == << rdr, pos, pc, output, passed >>
vars == << ledgerVars, driverVars >>

\* An empty HashMap.
EmptyMap == [k \in {} |-> k]

\* HashMap::insert: adds the key or replaces its value.
MapInsert(m, k, v) ==
    [x \in (DOMAIN m) \cup {k} |-> IF x = k THEN v ELSE m[x]]

\* ------------------------------------------------------------ Account ----

\* Account::new
Account_new(id) ==
    [client |-> id, available |-> 0, held |-> 0, total |-> 0, locked |-> FALSE]

\* is_amount_negative: "Ok" or the error.
is_amount_negative(amount) ==
    IF amount < 0 THEN "NegativeAmount" ELSE "Ok"

\* Account::is_account_locked: "Ok" or the error.
is_account_locked(self) ==
    IF self.locked THEN "AccountLocked" ELSE "Ok"

\* The Account operations work on the account in place (&mut self): each
\* returns its result and the account as the call leaves it.
Failed(e, self) == [res |-> e, self |-> self]
Succeeded(self) == [res |-> "Ok", self |-> self]

\* Account::deposit without the lock check.
deposit_no_lock_check(self, amount) ==
    IF is_amount_negative(amount) # "Ok"
    THEN Failed(is_amount_negative(amount), self)
    ELSE Succeeded([self EXCEPT !.available = @ + amount,
                                !.total = @ + amount])

\* Account::deposit with the lock check made before the amount check.
deposit_lock_check_first(self, amount) ==
    IF is_account_locked(self) # "Ok"
    THEN Failed(is_account_locked(self), self)
    ELSE IF is_amount_negative(amount) # "Ok"
    THEN Failed(is_amount_negative(amount), self)
    ELSE Succeeded([self EXCEPT !.available = @ + amount,
                                !.total = @ + amount])

\* Account::deposit without the check of the amount's sign.
deposit_no_sign_check(self, amount) ==
    IF is_account_locked(self) # "Ok"
    THEN Failed(is_account_locked(self), self)
    ELSE Succeeded([self EXCEPT !.available = @ + amount,
                                !.total = @ + amount])

\* Account::deposit
deposit(self, amount) ==
    IF is_amount_negative(amount) # "Ok"
    THEN Failed(is_amount_negative(amount), self)
    ELSE IF is_account_locked(self) # "Ok"
    THEN Failed(is_account_locked(self), self)
    ELSE Succeeded([self EXCEPT !.available = @ + amount,
                                !.total = @ + amount])

\* Account::withdrawal that takes the amount before it checks the funds.
withdrawal_takes_first(self, amount) ==
    IF is_amount_negative(amount) # "Ok"
    THEN Failed(is_amount_negative(amount), self)
    ELSE IF is_account_locked(self) # "Ok"
    THEN Failed(is_account_locked(self), self)
    ELSE LET taken == [self EXCEPT !.available = @ - amount,
                                   !.total = @ - amount] IN
         IF taken.available < 0
         THEN Failed("InsufficientFunds", taken)
         ELSE Succeeded(taken)

\* Account::withdrawal that refuses an amount equal to available.
withdrawal_refuses_equal(self, amount) ==
    IF is_amount_negative(amount) # "Ok"
    THEN Failed(is_amount_negative(amount), self)
    ELSE IF is_account_locked(self) # "Ok"
    THEN Failed(is_account_locked(self), self)
    ELSE IF amount >= self.available
    THEN Failed("InsufficientFunds", self)
    ELSE Succeeded([self EXCEPT !.available = @ - amount,
                                !.total = @ - amount])

\* Account::withdrawal that moves the amount to held and leaves
\* total as it is.
withdrawal_keeps_total(self, amount) ==
    IF is_amount_negative(amount) # "Ok"
    THEN Failed(is_amount_negative(amount), self)
    ELSE IF is_account_locked(self) # "Ok"
    THEN Failed(is_account_locked(self), self)
    ELSE IF amount > self.available
    THEN Failed("InsufficientFunds", self)
    ELSE Succeeded([self EXCEPT !.available = @ - amount,
                                !.held = @ + amount])

\* Account::withdrawal that measures the amount against total, not available.
withdrawal_checks_total(self, amount) ==
    IF is_amount_negative(amount) # "Ok"
    THEN Failed(is_amount_negative(amount), self)
    ELSE IF is_account_locked(self) # "Ok"
    THEN Failed(is_account_locked(self), self)
    ELSE IF amount > self.total
    THEN Failed("InsufficientFunds", self)
    ELSE Succeeded([self EXCEPT !.available = @ - amount,
                                !.total = @ - amount])

\* Account::withdrawal
withdrawal(self, amount) ==
    IF is_amount_negative(amount) # "Ok"
    THEN Failed(is_amount_negative(amount), self)
    ELSE IF is_account_locked(self) # "Ok"
    THEN Failed(is_account_locked(self), self)
    ELSE IF amount > self.available
    THEN Failed("InsufficientFunds", self)
    ELSE Succeeded([self EXCEPT !.available = @ - amount,
                                !.total = @ - amount])

\* Account::dispute that takes the amount from total as well.
dispute_takes_total(self, amount) ==
    IF is_amount_negative(amount) # "Ok"
    THEN Failed(is_amount_negative(amount), self)
    ELSE IF is_account_locked(self) # "Ok"
    THEN Failed(is_account_locked(self), self)
    ELSE Succeeded([self EXCEPT !.available = @ - amount,
                                !.total = @ - amount,
                                !.held = @ + amount])

\* Account::dispute that refuses an amount above available.
dispute_requires_funds(self, amount) ==
    IF is_amount_negative(amount) # "Ok"
    THEN Failed(is_amount_negative(amount), self)
    ELSE IF is_account_locked(self) # "Ok"
    THEN Failed(is_account_locked(self), self)
    ELSE IF amount > self.available
    THEN Failed("InsufficientFunds", self)
    ELSE Succeeded([self EXCEPT !.available = @ - amount,
                                !.held = @ + amount])

\* Account::dispute
dispute(self, amount) ==
    IF is_amount_negative(amount) # "Ok"
    THEN Failed(is_amount_negative(amount), self)
    ELSE IF is_account_locked(self) # "Ok"
    THEN Failed(is_account_locked(self), self)
    ELSE Succeeded([self EXCEPT !.available = @ - amount,
                                !.held = @ + amount])

\* Account::resolve without the lock check.
resolve_no_lock_check(self, amount) ==
    IF is_amount_negative(amount) # "Ok"
    THEN Failed(is_amount_negative(amount), self)
    ELSE Succeeded([self EXCEPT !.available = @ + amount,
                                !.held = @ - amount])

\* Account::resolve that returns the amount to total as well.
resolve_adds_total(self, amount) ==
    IF is_amount_negative(amount) # "Ok"
    THEN Failed(is_amount_negative(amount), self)
    ELSE IF is_account_locked(self) # "Ok"
    THEN Failed(is_account_locked(self), self)
    ELSE Succeeded([self EXCEPT !.available = @ + amount,
                                !.total = @ + amount,
                                !.held = @ - amount])

\* Account::resolve that gives the amount back without releasing it.
resolve_keeps_held(self, amount) ==
    IF is_amount_negative(amount) # "Ok"
    THEN Failed(is_amount_negative(amount), self)
    ELSE IF is_account_locked(self) # "Ok"
    THEN Failed(is_account_locked(self), self)
    ELSE Succeeded([self EXCEPT !.available = @ + amount,
                                !.total = @ + amount])

\* Account::resolve
resolve(self, amount) ==
    IF is_amount_negative(amount) # "Ok"
    THEN Failed(is_amount_negative(amount), self)
    ELSE IF is_account_locked(self) # "Ok"
    THEN Failed(is_account_locked(self), self)
    ELSE Succeeded([self EXCEPT !.available = @ + amount,
                                !.held = @ - amount])

\* Account::chargeback that leaves total as it is.
chargeback_keeps_total(self, amount) ==
    IF is_amount_negative(amount) # "Ok"
    THEN Failed(is_amount_negative(amount), self)
    ELSE IF is_account_locked(self) # "Ok"
    THEN Failed(is_account_locked(self), self)
    ELSE Succeeded([self EXCEPT !.held = @ - amount,
                                !.locked = TRUE])

\* Account::chargeback that does not lock the account.
chargeback_no_lock(self, amount) ==
    IF is_amount_negative(amount) # "Ok"
    THEN Failed(is_amount_negative(amount), self)
    ELSE IF is_account_locked(self) # "Ok"
    THEN Failed(is_account_locked(self), self)
    ELSE Succeeded([self EXCEPT !.total = @ - amount,
                                !.held = @ - amount])

\* Account::chargeback that takes the amount from available, not from held.
chargeback_takes_available(self, amount) ==
    IF is_amount_negative(amount) # "Ok"
    THEN Failed(is_amount_negative(amount), self)
    ELSE IF is_account_locked(self) # "Ok"
    THEN Failed(is_account_locked(self), self)
    ELSE Succeeded([self EXCEPT !.total = @ - amount,
                                !.available = @ - amount,
                                !.locked = TRUE])

\* Account::chargeback that refuses an amount above held.
chargeback_requires_held(self, amount) ==
    IF is_amount_negative(amount) # "Ok"
    THEN Failed(is_amount_negative(amount), self)
    ELSE IF is_account_locked(self) # "Ok"
    THEN Failed(is_account_locked(self), self)
    ELSE IF amount > self.held
    THEN Failed("InsufficientFunds", self)
    ELSE Succeeded([self EXCEPT !.total = @ - amount,
                                !.held = @ - amount,
                                !.locked = TRUE])

\* Account::chargeback
chargeback(self, amount) ==
    IF is_amount_negative(amount) # "Ok"
    THEN Failed(is_amount_negative(amount), self)
    ELSE IF is_account_locked(self) # "Ok"
    THEN Failed(is_account_locked(self), self)
    ELSE Succeeded([self EXCEPT !.total = @ - amount,
                                !.held = @ - amount,
                                !.locked = TRUE])

\* -------------------------------------------------------- Transaction ----

\* Transaction::new
Transaction_new(in) ==
    [transaction_type |-> in.transaction_type, client |-> in.client,
     amount |-> in.amount, state |-> "Ok"]

\* Transaction::open_dispute that sets the wrong state.
open_dispute_chargeback(self) == [self EXCEPT !.state = "Chargeback"]

\* Transaction::open_dispute
open_dispute(self) == [self EXCEPT !.state = "Disputed"]

\* Transaction::resolve_dispute
resolve_dispute(self) == [self EXCEPT !.state = "Ok"]

\* Transaction::chargeback_dispute that zeroes the amount of the record.
chargeback_dispute_clears_amount(self) ==
    [self EXCEPT !.state = "Chargeback", !.amount = Some(0)]

\* Transaction::chargeback_dispute
chargeback_dispute(self) == [self EXCEPT !.state = "Chargeback"]

\* ------------------------------------------------------------- Ledger ----

\* The outcome of process_trx: its result and both maps afterwards.
Outcome(res, accs, txs) == [res |-> res, accounts |-> accs, trx |-> txs]

\* self.accounts.entry(input.client).or_insert(Account::new(input.client))
or_insert(accs, client) ==
    IF client \in DOMAIN accs THEN accs
    ELSE MapInsert(accs, client, Account_new(client))

\* The Deposit arm without the check that the tx id is new.
process_trx_deposit_no_id_check(accs, txs, in) ==
    IF ~IsSome(in.amount)
    THEN Outcome("TrxInvalidAmount", accs, txs)
    ELSE LET r == deposit(accs[in.client], Unwrap(in.amount)) IN
         IF r.res # "Ok"
         THEN Outcome(r.res, [accs EXCEPT ![in.client] = r.self], txs)
         ELSE Outcome("Ok", [accs EXCEPT ![in.client] = r.self],
                      MapInsert(txs, in.tx, Transaction_new(in)))

\* The Deposit arm that stores the record before it calls the Account
\* operation, and leaves it stored when the operation fails.
process_trx_deposit_stores_first(accs, txs, in) ==
    IF in.tx \in DOMAIN txs
    THEN Outcome("TrxAlreadyProcessed", accs, txs)
    ELSE IF ~IsSome(in.amount)
    THEN Outcome("TrxInvalidAmount", accs, txs)
    ELSE LET r == deposit(accs[in.client], Unwrap(in.amount)) IN
         Outcome(r.res, [accs EXCEPT ![in.client] = r.self],
                 MapInsert(txs, in.tx, Transaction_new(in)))

\* process_trx, arm Type::Deposit.  accs already holds the client's account;
\* the operation works on the account inside the map, so what it leaves is
\* what the map holds, whether it succeeded or not.
process_trx_deposit(accs, txs, in) ==
    IF in.tx \in DOMAIN txs
    THEN Outcome("TrxAlreadyProcessed", accs, txs)
    ELSE IF ~IsSome(in.amount)
    THEN Outcome("TrxInvalidAmount", accs, txs)
    ELSE LET r == deposit(accs[in.client], Unwrap(in.amount)) IN
         IF r.res # "Ok"
         THEN Outcome(r.res, [accs EXCEPT ![in.client] = r.self], txs)
         ELSE Outcome("Ok", [accs EXCEPT ![in.client] = r.self],
                      MapInsert(txs, in.tx, Transaction_new(in)))

\* The Withdrawal arm that looks at the amount before the tx id.
process_trx_withdrawal_amount_check_first(accs, txs, in) ==
    IF ~IsSome(in.amount)
    THEN Outcome("TrxInvalidAmount", accs, txs)
    ELSE IF in.tx \in DOMAIN txs
    THEN Outcome("TrxAlreadyProcessed", accs, txs)
    ELSE LET r == withdrawal(accs[in.client], Unwrap(in.amount)) IN
         IF r.res # "Ok"
         THEN Outcome(r.res, [accs EXCEPT ![in.client] = r.self], txs)
         ELSE Outcome("Ok", [accs EXCEPT ![in.client] = r.self],
                      MapInsert(txs, in.tx, Transaction_new(in)))

\* process_trx, arm Type::Withdrawal.
process_trx_withdrawal(accs, txs, in) ==
    IF in.tx \in DOMAIN txs
    THEN Outcome("TrxAlreadyProcessed", accs, txs)
    ELSE IF ~IsSome(in.amount)
    THEN Outcome("TrxInvalidAmount", accs, txs)
    ELSE LET r == withdrawal(accs[in.client], Unwrap(in.amount)) IN
         IF r.res # "Ok"
         THEN Outcome(r.res, [accs EXCEPT ![in.client] = r.self], txs)
         ELSE Outcome("Ok", [accs EXCEPT ![in.client] = r.self],
                      MapInsert(txs, in.tx, Transaction_new(in)))

\* The Dispute arm that takes a missing record for nothing to do.
process_trx_dispute_ignores_missing(accs, txs, in) ==
    IF in.tx \notin DOMAIN txs
    THEN Outcome("Ok", accs, txs)
    ELSE LET disputed_trx == txs[in.tx] IN
         IF in.client # disputed_trx.client
         THEN Outcome("TrxClientIdInconsistency", accs, txs)
         ELSE IF disputed_trx.transaction_type
                     \in {"Withdrawal", "Resolve", "Dispute", "Chargeback"}
         THEN Outcome("TrxNotDisputable", accs, txs)
         ELSE IF disputed_trx.state # "Ok"
         THEN Outcome("TrxNotInDisputableState", accs, txs)
         ELSE IF ~IsSome(disputed_trx.amount)
         THEN Outcome("TrxInvalidAmount", accs, txs)
         ELSE LET r == dispute(accs[in.client], Unwrap(disputed_trx.amount)) IN
              IF r.res # "Ok"
              THEN Outcome(r.res, [accs EXCEPT ![in.client] = r.self], txs)
              ELSE Outcome("Ok", [accs EXCEPT ![in.client] = r.self],
                           [txs EXCEPT ![in.tx] = open_dispute(disputed_trx)])

\* The Dispute arm without the check of the stored record's type.
process_trx_dispute_no_type_check(accs, txs, in) ==
    IF in.tx \notin DOMAIN txs
    THEN Outcome("TrxNotFound", accs, txs)
    ELSE LET disputed_trx == txs[in.tx] IN
         IF in.client # disputed_trx.client
         THEN Outcome("TrxClientIdInconsistency", accs, txs)
         ELSE IF disputed_trx.state # "Ok"
         THEN Outcome("TrxNotInDisputableState", accs, txs)
         ELSE IF ~IsSome(disputed_trx.amount)
         THEN Outcome("TrxInvalidAmount", accs, txs)
         ELSE LET r == dispute(accs[in.client], Unwrap(disputed_trx.amount)) IN
              IF r.res # "Ok"
              THEN Outcome(r.res, [accs EXCEPT ![in.client] = r.self], txs)
              ELSE Outcome("Ok", [accs EXCEPT ![in.client] = r.self],
                           [txs EXCEPT ![in.tx] = open_dispute(disputed_trx)])

\* The Dispute arm without the check of the stored record's state.
process_trx_dispute_no_state_check(accs, txs, in) ==
    IF in.tx \notin DOMAIN txs
    THEN Outcome("TrxNotFound", accs, txs)
    ELSE LET disputed_trx == txs[in.tx] IN
         IF in.client # disputed_trx.client
         THEN Outcome("TrxClientIdInconsistency", accs, txs)
         ELSE IF disputed_trx.transaction_type
                     \in {"Withdrawal", "Resolve", "Dispute", "Chargeback"}
         THEN Outcome("TrxNotDisputable", accs, txs)
         ELSE IF ~IsSome(disputed_trx.amount)
         THEN Outcome("TrxInvalidAmount", accs, txs)
         ELSE LET r == dispute(accs[in.client], Unwrap(disputed_trx.amount)) IN
              IF r.res # "Ok"
              THEN Outcome(r.res, [accs EXCEPT ![in.client] = r.self], txs)
              ELSE Outcome("Ok", [accs EXCEPT ![in.client] = r.self],
                           [txs EXCEPT ![in.tx] = open_dispute(disputed_trx)])

\* The Dispute arm that moves the amount of the incoming record when it
\* carries one.
process_trx_dispute_uses_input_amount(accs, txs, in) ==
    IF in.tx \notin DOMAIN txs
    THEN Outcome("TrxNotFound", accs, txs)
    ELSE LET disputed_trx == txs[in.tx] IN
         IF in.client # disputed_trx.client
         THEN Outcome("TrxClientIdInconsistency", accs, txs)
         ELSE IF disputed_trx.transaction_type
                     \in {"Withdrawal", "Resolve", "Dispute", "Chargeback"}
         THEN Outcome("TrxNotDisputable", accs, txs)
         ELSE IF disputed_trx.state # "Ok"
         THEN Outcome("TrxNotInDisputableState", accs, txs)
         ELSE IF ~IsSome(disputed_trx.amount)
         THEN Outcome("TrxInvalidAmount", accs, txs)
         ELSE LET amount == IF IsSome(in.amount) THEN in.amount
                            ELSE disputed_trx.amount
                  r == dispute(accs[in.client], Unwrap(amount)) IN
              IF r.res # "Ok"
              THEN Outcome(r.res, [accs EXCEPT ![in.client] = r.self], txs)
              ELSE Outcome("Ok", [accs EXCEPT ![in.client] = r.self],
                           [txs EXCEPT ![in.tx] = open_dispute(disputed_trx)])

\* process_trx, arm Type::Dispute.
process_trx_dispute(accs, txs, in) ==
    IF in.tx \notin DOMAIN txs
    THEN Outcome("TrxNotFound", accs, txs)
    ELSE LET disputed_trx == txs[in.tx] IN
         IF in.client # disputed_trx.client
         THEN Outcome("TrxClientIdInconsistency", accs, txs)
         ELSE IF disputed_trx.transaction_type
                     \in {"Withdrawal", "Resolve", "Dispute", "Chargeback"}
         THEN Outcome("TrxNotDisputable", accs, txs)
         ELSE IF disputed_trx.state # "Ok"
         THEN Outcome("TrxNotInDisputableState", accs, txs)
         ELSE IF ~IsSome(disputed_trx.amount)
         THEN Outcome("TrxInvalidAmount", accs, txs)
         ELSE LET r == dispute(accs[in.client], Unwrap(disputed_trx.amount)) IN
              IF r.res # "Ok"
              THEN Outcome(r.res, [accs EXCEPT ![in.client] = r.self], txs)
              ELSE Outcome("Ok", [accs EXCEPT ![in.client] = r.self],
                           [txs EXCEPT ![in.tx] = open_dispute(disputed_trx)])

\* The Resolve arm without the check of the stored record's state.
process_trx_resolve_no_state_check(accs, txs, in) ==
    IF in.tx \notin DOMAIN txs
    THEN Outcome("TrxNotFound", accs, txs)
    ELSE LET resolved_trx == txs[in.tx] IN
         IF in.client # resolved_trx.client
         THEN Outcome("TrxClientIdInconsistency", accs, txs)
         ELSE IF ~IsSome(resolved_trx.amount)
         THEN Outcome("TrxInvalidAmount", accs, txs)
         ELSE LET r == resolve(accs[in.client], Unwrap(resolved_trx.amount)) IN
              IF r.res # "Ok"
              THEN Outcome(r.res, [accs EXCEPT ![in.client] = r.self], txs)
              ELSE Outcome("Ok", [accs EXCEPT ![in.client] = r.self],
                           [txs EXCEPT ![in.tx] = resolve_dispute(resolved_trx)])

\* The Resolve arm that compares the clients before it looks at the state.
process_trx_resolve_client_check_first(accs, txs, in) ==
    IF in.tx \notin DOMAIN txs
    THEN Outcome("TrxNotFound", accs, txs)
    ELSE LET resolved_trx == txs[in.tx] IN
         IF in.client # resolved_trx.client
         THEN Outcome("TrxClientIdInconsistency", accs, txs)
         ELSE IF resolved_trx.state # "Disputed"
         THEN Outcome("TrxNotInDispute", accs, txs)
         ELSE IF ~IsSome(resolved_trx.amount)
         THEN Outcome("TrxInvalidAmount", accs, txs)
         ELSE LET r == resolve(accs[in.client], Unwrap(resolved_trx.amount)) IN
              IF r.res # "Ok"
              THEN Outcome(r.res, [accs EXCEPT ![in.client] = r.self], txs)
              ELSE Outcome("Ok", [accs EXCEPT ![in.client] = r.self],
                           [txs EXCEPT ![in.tx] = resolve_dispute(resolved_trx)])

\* process_trx, arm Type::Resolve.
process_trx_resolve(accs, txs, in) ==
    IF in.tx \notin DOMAIN txs
    THEN Outcome("TrxNotFound", accs, txs)
    ELSE LET resolved_trx == txs[in.tx] IN
         IF resolved_trx.state # "Disputed"
         THEN Outcome("TrxNotInDispute", accs, txs)
         ELSE IF in.client # resolved_trx.client
         THEN Outcome("TrxClientIdInconsistency", accs, txs)
         ELSE IF ~IsSome(resolved_trx.amount)
         THEN Outcome("TrxInvalidAmount", accs, txs)
         ELSE LET r == resolve(accs[in.client], Unwrap(resolved_trx.amount)) IN
              IF r.res # "Ok"
              THEN Outcome(r.res, [accs EXCEPT ![in.client] = r.self], txs)
              ELSE Outcome("Ok", [accs EXCEPT ![in.client] = r.self],
                           [txs EXCEPT ![in.tx] = resolve_dispute(resolved_trx)])

\* The Chargeback arm that requires the record to be under dispute.
process_trx_chargeback_requires_dispute(accs, txs, in) ==
    IF in.tx \notin DOMAIN txs
    THEN Outcome("TrxNotFound", accs, txs)
    ELSE LET chargeback_trx == txs[in.tx] IN
         IF chargeback_trx.state # "Disputed"
         THEN Outcome("TrxNotInDispute", accs, txs)
         ELSE IF in.client # chargeback_trx.client
         THEN Outcome("TrxClientIdInconsistency", accs, txs)
         ELSE IF ~IsSome(chargeback_trx.amount)
         THEN Outcome("TrxInvalidAmount", accs, txs)
         ELSE LET r == chargeback(accs[in.client],
                                  Unwrap(chargeback_trx.amount)) IN
              IF r.res # "Ok"
              THEN Outcome(r.res, [accs EXCEPT ![in.client] = r.self], txs)
              ELSE Outcome("Ok", [accs EXCEPT ![in.client] = r.self],
                           [txs EXCEPT ![in.tx] =
                                chargeback_dispute(chargeback_trx)])

\* The Chargeback arm without the check of the record's client.
process_trx_chargeback_no_client_check(accs, txs, in) ==
    IF in.tx \notin DOMAIN txs
    THEN Outcome("TrxNotFound", accs, txs)
    ELSE LET chargeback_trx == txs[in.tx] IN
         IF ~IsSome(chargeback_trx.amount)
         THEN Outcome("TrxInvalidAmount", accs, txs)
         ELSE LET r == chargeback(accs[in.client],
                                  Unwrap(chargeback_trx.amount)) IN
              IF r.res # "Ok"
              THEN Outcome(r.res, [accs EXCEPT ![in.client] = r.self], txs)
              ELSE Outcome("Ok", [accs EXCEPT ![in.client] = r.self],
                           [txs EXCEPT ![in.tx] =
                                chargeback_dispute(chargeback_trx)])

\* The Chargeback arm that closes every record of the client.
process_trx_chargeback_closes_all(accs, txs, in) ==
    IF in.tx \notin DOMAIN txs
    THEN Outcome("TrxNotFound", accs, txs)
    ELSE LET chargeback_trx == txs[in.tx] IN
         IF in.client # chargeback_trx.client
         THEN Outcome("TrxClientIdInconsistency", accs, txs)
         ELSE IF ~IsSome(chargeback_trx.amount)
         THEN Outcome("TrxInvalidAmount", accs, txs)
         ELSE LET r == chargeback(accs[in.client],
                                  Unwrap(chargeback_trx.amount)) IN
              IF r.res # "Ok"
              THEN Outcome(r.res, [accs EXCEPT ![in.client] = r.self], txs)
              ELSE Outcome("Ok", [accs EXCEPT ![in.client] = r.self],
                           [t \in DOMAIN txs |->
                               IF txs[t].client = in.client
                               THEN chargeback_dispute(txs[t]) ELSE txs[t]])

\* The Chargeback arm that leaves the record in the state it was in.
process_trx_chargeback_keeps_state(accs, txs, in) ==
    IF in.tx \notin DOMAIN txs
    THEN Outcome("TrxNotFound", accs, txs)
    ELSE LET chargeback_trx == txs[in.tx] IN
         IF in.client # chargeback_trx.client
         THEN Outcome("TrxClientIdInconsistency", accs, txs)
         ELSE IF ~IsSome(chargeback_trx.amount)
         THEN Outcome("TrxInvalidAmount", accs, txs)
         ELSE LET r == chargeback(accs[in.client],
                                  Unwrap(chargeback_trx.amount)) IN
              Outcome(r.res, [accs EXCEPT ![in.client] = r.self], txs)

\* process_trx, arm Type::Chargeback.
process_trx_chargeback(accs, txs, in) ==
    IF in.tx \notin DOMAIN txs
    THEN Outcome("TrxNotFound", accs, txs)
    ELSE LET chargeback_trx == txs[in.tx] IN
         IF in.client # chargeback_trx.client
         THEN Outcome("TrxClientIdInconsistency", accs, txs)
         ELSE IF ~IsSome(chargeback_trx.amount)
         THEN Outcome("TrxInvalidAmount", accs, txs)
         ELSE LET r == chargeback(accs[in.client],
                                  Unwrap(chargeback_trx.amount)) IN
              IF r.res # "Ok"
              THEN Outcome(r.res, [accs EXCEPT ![in.client] = r.self], txs)
              ELSE Outcome("Ok", [accs EXCEPT ![in.client] = r.self],
                           [txs EXCEPT ![in.tx] =
                                chargeback_dispute(chargeback_trx)])

\* process_trx that creates the client's account only for an accepted record.
process_trx_outcome_no_account_on_error(accs, txs, in) ==
    LET withAccount == or_insert(accs, in.client)
        out == CASE in.transaction_type = "Deposit" ->
                       process_trx_deposit(withAccount, txs, in)
                 [] in.transaction_type = "Withdrawal" ->
                       process_trx_withdrawal(withAccount, txs, in)
                 [] in.transaction_type = "Dispute" ->
                       process_trx_dispute(withAccount, txs, in)
                 [] in.transaction_type = "Resolve" ->
                       process_trx_resolve(withAccount, txs, in)
                 [] in.transaction_type = "Chargeback" ->
                       process_trx_chargeback(withAccount, txs, in)
    IN IF out.res = "Ok" THEN out ELSE Outcome(out.res, accs, txs)

\* process_trx that refuses every record once any account of the ledger is
\* locked.
process_trx_outcome_ledger_wide_lock(accs, txs, in) ==
    LET withAccount == or_insert(accs, in.client) IN
    IF \E c \in DOMAIN accs : accs[c].locked
    THEN Outcome("AccountLocked", withAccount, txs)
    ELSE CASE in.transaction_type = "Deposit" ->
                 process_trx_deposit(withAccount, txs, in)
           [] in.transaction_type = "Withdrawal" ->
                 process_trx_withdrawal(withAccount, txs, in)
           [] in.transaction_type = "Dispute" ->
                 process_trx_dispute(withAccount, txs, in)
           [] in.transaction_type = "Resolve" ->
                 process_trx_resolve(withAccount, txs, in)
           [] in.transaction_type = "Chargeback" ->
                 process_trx_chargeback(withAccount, txs, in)

\* Ledger::process_trx as a function of the ledger and the input.
process_trx_outcome(accs, txs, in) ==
    LET withAccount == or_insert(accs, in.client) IN
    CASE in.transaction_type = "Deposit" ->
            process_trx_deposit(withAccount, txs, in)
      [] in.transaction_type = "Withdrawal" ->
            process_trx_withdrawal(withAccount, txs, in)
      [] in.transaction_type = "Dispute" ->
            process_trx_dispute(withAccount, txs, in)
      [] in.transaction_type = "Resolve" ->
            process_trx_resolve(withAccount, txs, in)
      [] in.transaction_type = "Chargeback" ->
            process_trx_chargeback(withAccount, txs, in)

\* One call of Ledger::process_trx.
process_trx(in) ==
    LET out == process_trx_outcome(accounts, trx, in) IN
    /\ accounts' = out.accounts
    /\ trx' = out.trx
    /\ result' = out.res
    /\ input' = in
    /\ prevAccounts' = accounts
    /\ prevTrx' = trx
    /\ seenClients' = seenClients \cup {in.client}
    /\ acceptedCount' =
          IF out.res = "Ok" /\ in.transaction_type \in {"Deposit", "Withdrawal"}
          THEN [acceptedCount EXCEPT ![in.tx] = @ + 1]
          ELSE acceptedCount

\* Ledger::new; no record has been processed yet.
Init ==
    /\ accounts = EmptyMap
    /\ trx = EmptyMap
    /\ input = [transaction_type |-> "None", client |-> 0, tx |-> 0,
                amount |-> None]
    /\ result = "None"
    /\ prevAccounts = EmptyMap
    /\ prevTrx = EmptyMap
    /\ seenClients = {}
    /\ acceptedCount = [t \in TxIds |-> 0]
    /\ rdr = << >>
    /\ pos = 0
    /\ pc = "idle"
    /\ output = {}
    /\ passed = << >>

\* The record producer hands the ledger one record of each type.
Deposit ==
    /\ \E in \in Input : in.transaction_type = "Deposit" /\ process_trx(in)
    /\ UNCHANGED driverVars

Withdrawal ==
    /\ \E in \in Input : in.transaction_type = "Withdrawal" /\ process_trx(in)
    /\ UNCHANGED driverVars

Dispute ==
    /\ \E in \in Input : in.transaction_type = "Dispute" /\ process_trx(in)
    /\ UNCHANGED driverVars

Resolve ==
    /\ \E in \in Input : in.transaction_type = "Resolve" /\ process_trx(in)
    /\ UNCHANGED driverVars

Chargeback ==
    /\ \E in \in Input : in.transaction_type = "Chargeback" /\ process_trx(in)
    /\ UNCHANGED driverVars

Next == Deposit \/ Withdrawal \/ Dispute \/ Resolve \/ Chargeback

Spec == Init /\ [][Next]_vars

\* ------------------------------------------------------------- driver ----

\* The largest tx id that occurs in an input file.
MaxFileTx == 1

\* rdr.deserialize() yields one Result per line: Err when the line does not
\* decode into an Input, Ok(input) when it does.
DeserializeErr == << >>
DeserializeOk(in) == << in >>

\* The Inputs a line of the file may decode into (an amount that does not
\* parse decodes into None, csv::invalid_option).
FileInput ==
    [transaction_type : Type, client : Clients, tx : 1..MaxFileTx,
     amount : {None, Some(MaxAmount)}]

\* The lines of a file, and the files: every sequence of up to MaxLines lines.
FileLine == {DeserializeErr} \cup {DeserializeOk(in) : in \in FileInput}
File == UNION {[1..n -> FileLine] : n \in 0..MaxLines}

\* process_transactions_file starts: Ledger::new(), nothing read or written.
DriverInit ==
    /\ accounts = EmptyMap
    /\ trx = EmptyMap
    /\ input = [transaction_type |-> "None", client |-> 0, tx |-> 0,
                amount |-> None]
    /\ result = "None"
    /\ prevAccounts = EmptyMap
    /\ prevTrx = EmptyMap
    /\ seenClients = {}
    /\ acceptedCount = [t \in TxIds |-> 0]
    /\ rdr \in File
    /\ pos = 0
    /\ pc = "loop"
    /\ output = {}
    /\ passed = << >>

\* The loop takes a line that failed to decode: it is logged and skipped.
DriverParseError ==
    /\ pc = "loop"
    /\ pos < Len(rdr)
    /\ rdr[pos + 1] = DeserializeErr
    /\ pos' = pos + 1
    /\ UNCHANGED << ledgerVars, rdr, pc, output, passed >>

\* The loop that returns the error of a rejected record to its caller
\* instead of going on with the next line.
DriverProcess_returns_on_error ==
    /\ pc = "loop"
    /\ pos < Len(rdr)
    /\ rdr[pos + 1] # DeserializeErr
    /\ LET trx_input == rdr[pos + 1][1] IN
       /\ process_trx(trx_input)
       /\ passed' = Append(passed, trx_input)
    /\ pos' = pos + 1
    /\ pc' = IF result' = "Ok" THEN "loop" ELSE "done"
    /\ UNCHANGED << rdr, output >>

\* The loop takes a decoded line and hands it to process_trx; an error is
\* logged, and in both arms of the match the loop goes on with the next line.
DriverProcess ==
    /\ pc = "loop"
    /\ pos < Len(rdr)
    /\ rdr[pos + 1] # DeserializeErr
    /\ LET trx_input == rdr[pos + 1][1] IN
       /\ process_trx(trx_input)
       /\ passed' = Append(passed, trx_input)
    /\ pos' = pos + 1
    /\ UNCHANGED << rdr, pc, output >>

\* The accounts of an account map, as the set of rows written for them.
AccountRows(accs) == {accs[c] : c \in DOMAIN accs}

\* The input is exhausted: every account of the ledger is serialized to the
\* writer (the writer is taken to accept every row) and the function returns.
DriverWrite ==
    /\ pc = "loop"
    /\ pos = Len(rdr)
    /\ output' = AccountRows(accounts)
    /\ pc' = "done"
    /\ UNCHANGED << ledgerVars, rdr, pos, passed >>

DriverNext == DriverParseError \/ DriverProcess \/ DriverWrite

\* The loop and the final write are sequential code that always takes its
\* next step.
DriverSpec == DriverInit /\ [][DriverNext]_vars /\ WF_vars(DriverNext)

\* ------------------------------------------------------------- claims ----

\* A call of process_trx has been made, and how it ended.
Called == result # "None"
Accepted == result = "Ok"
Rejected == Called /\ result # "Ok"

\* The account of the last record's client as the call found it: the stored
\* one, or the fresh one or_insert creates.
AccountBefore ==
    IF input.client \in DOMAIN prevAccounts
    THEN prevAccounts[input.client]
    ELSE Account_new(input.client)

\* Every account that existed before the last call is exactly as it was.
OldAccountsUnchanged ==
    \A c \in DOMAIN prevAccounts :
        c \in DOMAIN accounts /\ accounts[c] = prevAccounts[c]

\* C1: in every reachable ledger state, every account satisfies
\* total = available + held.
C1_TotalIsAvailablePlusHeld ==
    \A c \in DOMAIN accounts :
        accounts[c].total = accounts[c].available + accounts[c].held

\* C1 witness: an accepted Chargeback left a locked account whose three
\* amounts are all different from zero.
C1_Witness ==
    /\ Accepted
    /\ input.transaction_type = "Chargeback"
    /\ accounts[input.client].locked
    /\ accounts[input.client].available # 0
    /\ accounts[input.client].held # 0
    /\ accounts[input.client].total # 0

\* C2: a Deposit or Withdrawal whose tx id is already stored is rejected with
\* TrxAlreadyProcessed; every balance and the record map stay as they were.
C2_Idempotency ==
    (/\ Called
     /\ input.transaction_type \in {"Deposit", "Withdrawal"}
     /\ input.tx \in DOMAIN prevTrx)
    => /\ result = "TrxAlreadyProcessed"
       /\ trx = prevTrx
       /\ OldAccountsUnchanged

\* C2 witness: the second attempt differs from the stored record in type,
\* client and amount, and would have been accepted under a fresh tx id.
C2_Witness ==
    /\ Called
    /\ input.transaction_type = "Withdrawal"
    /\ input.tx \in DOMAIN prevTrx
    /\ prevTrx[input.tx].transaction_type = "Deposit"
    /\ prevTrx[input.tx].client # input.client
    /\ prevTrx[input.tx].amount # input.amount
    /\ IsSome(input.amount)
    /\ Unwrap(input.amount) > 0
    /\ input.client \in DOMAIN prevAccounts
    /\ ~prevAccounts[input.client].locked
    /\ prevAccounts[input.client].available >= Unwrap(input.amount)
    /\ result = "TrxAlreadyProcessed"

\* The last call found the account of its client locked.
LockedBefore ==
    /\ Called
    /\ input.client \in DOMAIN prevAccounts
    /\ prevAccounts[input.client].locked

\* The last record passes every check process_trx makes before it calls the
\* Account operation (stated over the maps as the call found them).
PassesLedgerChecks ==
    CASE input.transaction_type \in {"Deposit", "Withdrawal"} ->
            /\ input.tx \notin DOMAIN prevTrx
            /\ IsSome(input.amount)
      [] input.transaction_type = "Dispute" ->
            /\ input.tx \in DOMAIN prevTrx
            /\ prevTrx[input.tx].client = input.client
            /\ prevTrx[input.tx].transaction_type = "Deposit"
            /\ prevTrx[input.tx].state = "Ok"
      [] input.transaction_type = "Resolve" ->
            /\ input.tx \in DOMAIN prevTrx
            /\ prevTrx[input.tx].state = "Disputed"
            /\ prevTrx[input.tx].client = input.client
      [] input.transaction_type = "Chargeback" ->
            /\ input.tx \in DOMAIN prevTrx
            /\ prevTrx[input.tx].client = input.client
      [] OTHER -> FALSE

\* The amount process_trx hands to the Account operation: the record's own
\* for Deposit and Withdrawal, the stored one for the dispute lifecycle.
AmountUsed ==
    IF input.transaction_type \in {"Deposit", "Withdrawal"}
    THEN input.amount
    ELSE prevTrx[input.tx].amount

\* C3 as claimed: once an account is locked, every later record of that
\* client, of any type, tx id and amount, fails with AccountLocked.
C3_LockedAlwaysAccountLocked ==
    LockedBefore => result = "AccountLocked"

\* C3 amended: once an account is locked, every later record of that client
\* is rejected; the error is AccountLocked exactly when the record passes the
\* checks made before the Account operation and its amount is not negative,
\* and otherwise it is the error of the first of those checks that fails.
C3_LockedAlwaysRejected ==
    LockedBefore =>
        /\ Rejected
        /\ (result = "AccountLocked") <=>
              (PassesLedgerChecks /\ Unwrap(AmountUsed) >= 0)
        /\ (~PassesLedgerChecks) =>
              result \in {"TrxAlreadyProcessed", "TrxInvalidAmount",
                          "TrxNotFound", "TrxClientIdInconsistency",
                          "TrxNotDisputable", "TrxNotInDisputableState",
                          "TrxNotInDispute"}
        /\ (PassesLedgerChecks /\ Unwrap(AmountUsed) < 0) =>
              result = "NegativeAmount"

\* C3 witness: a Resolve of a record under dispute, of the same client, finds
\* the account locked and fails with AccountLocked.
C3_Witness ==
    /\ LockedBefore
    /\ input.transaction_type = "Resolve"
    /\ input.tx \in DOMAIN prevTrx
    /\ prevTrx[input.tx].state = "Disputed"
    /\ prevTrx[input.tx].client = input.client
    /\ result = "AccountLocked"

\* C4: a locked account stays locked, and a call that finds an account locked
\* changes none of its amounts, changes no stored record of that client and
\* stores no new record for that client.
C4_LockFreeze ==
    \A c \in DOMAIN prevAccounts :
        prevAccounts[c].locked =>
            /\ c \in DOMAIN accounts
            /\ accounts[c].locked
            /\ accounts[c] = prevAccounts[c]
            /\ \A t \in DOMAIN prevTrx :
                  prevTrx[t].client = c =>
                      t \in DOMAIN trx /\ trx[t] = prevTrx[t]
            /\ \A t \in (DOMAIN trx) \ (DOMAIN prevTrx) : trx[t].client # c

\* C4 witness: a Deposit with a fresh tx id and a positive amount reached the
\* locked account of a client with a charged-back record.
C4_Witness ==
    /\ LockedBefore
    /\ input.transaction_type = "Deposit"
    /\ input.tx \notin DOMAIN prevTrx
    /\ IsSome(input.amount)
    /\ Unwrap(input.amount) > 0
    /\ \E t \in DOMAIN prevTrx :
          prevTrx[t].client = input.client /\ prevTrx[t].state = "Chargeback"
    /\ accounts[input.client] = prevAccounts[input.client]

\* C5 as claimed: when process_trx returns an error, the account map and the
\* record map are exactly what they were before the call.
C5_NoTraceAtAll ==
    Rejected => (accounts = prevAccounts /\ trx = prevTrx)

\* C5 amended: when process_trx returns an error, the record map and every
\* account that existed before the call are exactly what they were; the only
\* change a rejected record can make is the insertion of the account of its
\* own client, all amounts zero and unlocked, when that client had none.
C5_NoTraceButNewAccount ==
    Rejected =>
        /\ trx = prevTrx
        /\ OldAccountsUnchanged
        /\ DOMAIN accounts = (DOMAIN prevAccounts) \cup {input.client}
        /\ accounts[input.client] = AccountBefore

\* C5 witness: with records already stored, a Withdrawal of a client that had
\* no account was rejected for insufficient funds.
C5_Witness ==
    /\ result = "InsufficientFunds"
    /\ input.client \notin DOMAIN prevAccounts
    /\ input.client \in DOMAIN accounts
    /\ prevTrx # EmptyMap

\* C6: the accounts of the ledger are exactly the clients of the records
\* processed so far; no account is ever removed; an account enters the map
\* in the call that first names its client, unlocked and with all amounts
\* zero (plus the amount of that record, when it is an accepted Deposit).
C6_AccountSet ==
    /\ DOMAIN accounts = seenClients
    /\ (DOMAIN prevAccounts) \subseteq (DOMAIN accounts)
    /\ \A c \in DOMAIN accounts : accounts[c].client = c
    /\ \A c \in (DOMAIN accounts) \ (DOMAIN prevAccounts) :
          /\ c = input.client
          /\ accounts[c].held = 0
          /\ ~accounts[c].locked
          /\ accounts[c].available =
                IF Accepted /\ input.transaction_type = "Deposit"
                THEN Unwrap(input.amount) ELSE 0
          /\ accounts[c].total = accounts[c].available

\* C6 witness: the only record of a client was rejected, and the client has
\* an account all the same, beside another client's.
C6_Witness ==
    /\ Rejected
    /\ input.client \notin DOMAIN prevAccounts
    /\ DOMAIN prevAccounts # {}
    /\ accounts[input.client] = Account_new(input.client)
    /\ Cardinality(DOMAIN accounts) = MaxClient

\* The negative amounts the Account operations are tried with.
NegativeAmounts == {0 - a : a \in 1..(MaxAmount + 1)}

\* C7: on every account the ledger can hold, each of the five Account
\* operations invoked with a negative amount fails with NegativeAmount and
\* leaves the account as it is; a Deposit or Withdrawal record with a negative
\* amount and a tx id not yet stored is rejected with NegativeAmount, stores
\* no record and changes no account.
C7_NegativeAmount ==
    /\ \A c \in DOMAIN accounts : \A a \in NegativeAmounts :
          LET acc == accounts[c] IN
          /\ deposit(acc, a) = [res |-> "NegativeAmount", self |-> acc]
          /\ withdrawal(acc, a) = [res |-> "NegativeAmount", self |-> acc]
          /\ dispute(acc, a) = [res |-> "NegativeAmount", self |-> acc]
          /\ resolve(acc, a) = [res |-> "NegativeAmount", self |-> acc]
          /\ chargeback(acc, a) = [res |-> "NegativeAmount", self |-> acc]
    /\ (/\ Called
        /\ input.transaction_type \in {"Deposit", "Withdrawal"}
        /\ input.tx \notin DOMAIN prevTrx
        /\ IsSome(input.amount)
        /\ Unwrap(input.amount) < 0)
       => /\ result = "NegativeAmount"
          /\ trx = prevTrx
          /\ OldAccountsUnchanged
          /\ accounts[input.client] = AccountBefore

\* C7 witness: a Withdrawal with a negative amount and a fresh tx id reached
\* a locked account with a negative held amount.
C7_Witness ==
    /\ LockedBefore
    /\ input.transaction_type = "Withdrawal"
    /\ input.tx \notin DOMAIN prevTrx
    /\ IsSome(input.amount)
    /\ Unwrap(input.amount) < 0
    /\ prevAccounts[input.client].held < 0
    /\ result = "NegativeAmount"

\* C8: on every unlocked account the ledger can hold, Account::withdrawal of
\* a non-negative amount above available fails with InsufficientFunds and
\* leaves the account as it is, and of an amount equal to available succeeds
\* and leaves available at 0; a Withdrawal record that reaches the operation
\* (fresh tx id, amount present) is rejected with InsufficientFunds without
\* any change in the first case and is accepted and stored in the second.
C8_InsufficientFunds ==
    /\ \A c \in DOMAIN accounts : \A a \in 0..(MaxTx * MaxAmount + 1) :
          LET acc == accounts[c] IN
          ~acc.locked =>
              /\ a > acc.available =>
                    withdrawal(acc, a) =
                        [res |-> "InsufficientFunds", self |-> acc]
              /\ a = acc.available =>
                    /\ withdrawal(acc, a).res = "Ok"
                    /\ withdrawal(acc, a).self.available = 0
    /\ (/\ Called
        /\ input.transaction_type = "Withdrawal"
        /\ input.tx \notin DOMAIN prevTrx
        /\ IsSome(input.amount)
        /\ Unwrap(input.amount) >= 0
        /\ ~AccountBefore.locked)
       => /\ Unwrap(input.amount) > AccountBefore.available =>
                /\ result = "InsufficientFunds"
                /\ trx = prevTrx
                /\ OldAccountsUnchanged
                /\ accounts[input.client] = AccountBefore
          /\ Unwrap(input.amount) = AccountBefore.available =>
                /\ Accepted
                /\ accounts[input.client].available = 0
                /\ input.tx \in DOMAIN trx

\* C8 witness: the account has funds, all of them held, and a Withdrawal of
\* no more than its total was rejected for insufficient funds.
C8_Witness ==
    /\ result = "InsufficientFunds"
    /\ input.tx \notin DOMAIN trx
    /\ AccountBefore.held > 0
    /\ AccountBefore.total >= Unwrap(input.amount)
    /\ Unwrap(input.amount) > AccountBefore.available
    /\ accounts[input.client] = AccountBefore

\* The edges of the record state machine: state before, record type, state
\* after.
RecordEdges ==
    {<< "Ok", "Dispute", "Disputed" >>,
     << "Disputed", "Resolve", "Ok" >>,
     << "Ok", "Chargeback", "Chargeback" >>,
     << "Disputed", "Chargeback", "Chargeback" >>}

\* C9: a stored record changes state only in an accepted call naming its tx
\* id, along Ok -> Disputed (Dispute), Disputed -> Ok (Resolve),
\* Ok -> Chargeback or Disputed -> Chargeback (Chargeback); a record in
\* Chargeback is in Chargeback after every later call.
C9_RecordStateMachine ==
    \A t \in DOMAIN prevTrx :
        /\ t \in DOMAIN trx
        /\ trx[t].state # prevTrx[t].state =>
              /\ Accepted
              /\ input.tx = t
              /\ << prevTrx[t].state, input.transaction_type, trx[t].state >>
                    \in RecordEdges
        /\ prevTrx[t].state = "Chargeback" => trx[t].state = "Chargeback"

\* C9 witness: a Dispute of the record's own client named a record that is
\* in Chargeback.
C9_Witness ==
    /\ Called
    /\ input.transaction_type = "Dispute"
    /\ input.tx \in DOMAIN prevTrx
    /\ prevTrx[input.tx].client = input.client
    /\ prevTrx[input.tx].state = "Chargeback"
    /\ trx[input.tx].state = "Chargeback"

\* The last record is a Chargeback naming a stored record of its own client
\* that is already in Chargeback.
ChargebackOnChargeback ==
    /\ Called
    /\ input.transaction_type = "Chargeback"
    /\ input.tx \in DOMAIN prevTrx
    /\ prevTrx[input.tx].client = input.client
    /\ prevTrx[input.tx].state = "Chargeback"

\* C10 as claimed: a Chargeback of a record already in Chargeback (same
\* client) is accepted and subtracts the record's amount from total and held
\* a second time.
C10_ChargebackReapplies ==
    ChargebackOnChargeback =>
        /\ Accepted
        /\ accounts[input.client].total =
              AccountBefore.total - Unwrap(prevTrx[input.tx].amount)
        /\ accounts[input.client].held =
              AccountBefore.held - Unwrap(prevTrx[input.tx].amount)

\* C10 amended: no check on the record's state blocks a Chargeback of a
\* record already in Chargeback (same client), but the account of that client
\* is then always locked: the Chargeback is rejected with AccountLocked and
\* nothing is subtracted a second time.
C10_ChargebackOnChargebackLocked ==
    ChargebackOnChargeback =>
        /\ AccountBefore.locked
        /\ result = "AccountLocked"
        /\ accounts = prevAccounts
        /\ trx = prevTrx

\* C10 witness: such a second Chargeback, of a record with a positive amount.
C10_Witness ==
    /\ ChargebackOnChargeback
    /\ Unwrap(prevTrx[input.tx].amount) > 0
    /\ result = "AccountLocked"

\* An account with the given amounts and lock flag.
AccountWith(c, av, h, tot, l) ==
    [client |-> c, available |-> av, held |-> h, total |-> tot, locked |-> l]

\* The ledger with the one account of client c and the one record t, a
\* Deposit of amount a in state s.
OneDepositLedger(c, t, a, acc, s) ==
    [accounts |-> (c :> acc),
     trx |-> (t :> [transaction_type |-> "Deposit", client |-> c,
                    amount |-> Some(a), state |-> s])]

\* The ledger after the first k records of the scenario Deposit(c, t, a),
\* Dispute(c, t), Resolve(c, t), Chargeback(c, t) on a fresh ledger, as the
\* scenario states it.
ScenarioLedger(k, c, t, a) ==
    CASE k = 0 -> [accounts |-> EmptyMap, trx |-> EmptyMap]
      [] k = 1 -> OneDepositLedger(c, t, a, AccountWith(c, a, 0, a, FALSE), "Ok")
      [] k = 2 -> OneDepositLedger(c, t, a, AccountWith(c, 0, a, a, FALSE),
                                   "Disputed")
      [] k = 3 -> OneDepositLedger(c, t, a, AccountWith(c, a, 0, a, FALSE), "Ok")
      [] k = 4 -> OneDepositLedger(c, t, a, AccountWith(c, a, 0 - a, 0, TRUE),
                                   "Chargeback")

\* The type of the k-th record of that scenario.
ScenarioType(k) ==
    CASE k = 1 -> "Deposit"
      [] k = 2 -> "Dispute"
      [] k = 3 -> "Resolve"
      [] k = 4 -> "Chargeback"

\* The last call processed the k-th record of the scenario on the ledger its
\* first k - 1 records leave.
ScenarioStep(k, c, t, a) ==
    /\ Called
    /\ prevAccounts = ScenarioLedger(k - 1, c, t, a).accounts
    /\ prevTrx = ScenarioLedger(k - 1, c, t, a).trx
    /\ input.transaction_type = ScenarioType(k)
    /\ input.client = c
    /\ input.tx = t
    /\ (k = 1 => input.amount = Some(a))

\* C11: on a fresh ledger, for every amount a >= 0, each of Deposit(c, t, a),
\* Dispute(c, t), Resolve(c, t), Chargeback(c, t) is accepted in turn and the
\* account of c is (a, 0, a, false), (0, a, a, false), (a, 0, a, false) and
\* (a, -a, 0, true) after them.
C11_ScenarioAtoD ==
    \A c \in Clients : \A t \in TxIds : \A a \in 0..MaxAmount : \A k \in 1..4 :
        ScenarioStep(k, c, t, a) =>
            /\ Accepted
            /\ accounts = ScenarioLedger(k, c, t, a).accounts
            /\ trx = ScenarioLedger(k, c, t, a).trx

\* C11 witness: the Chargeback that ends the scenario was processed, for a
\* positive amount.
C11_Witness ==
    \E c \in Clients : \E t \in TxIds : \E a \in 1..MaxAmount :
        /\ ScenarioStep(4, c, t, a)
        /\ accounts[c] = AccountWith(c, a, 0 - a, 0, TRUE)

\* The last record is a Chargeback naming a stored record of its own client
\* that is in state Ok or Disputed, and the client's account is unlocked.
ChargebackOfLiveRecord ==
    /\ Called
    /\ input.transaction_type = "Chargeback"
    /\ input.tx \in DOMAIN prevTrx
    /\ prevTrx[input.tx].client = input.client
    /\ prevTrx[input.tx].state \in {"Ok", "Disputed"}
    /\ ~AccountBefore.locked

\* C12: a Chargeback of a stored record of the same client in state Ok or
\* Disputed, Deposit or Withdrawal, on an unlocked account is accepted: total
\* and held each decrease by the stored amount, available is unchanged, the
\* account becomes locked and the record enters Chargeback.
C12_ChargebackWithoutDispute ==
    ChargebackOfLiveRecord =>
        LET a == Unwrap(prevTrx[input.tx].amount) IN
        /\ Accepted
        /\ accounts[input.client] =
              [AccountBefore EXCEPT !.total = @ - a, !.held = @ - a,
                                    !.locked = TRUE]
        /\ accounts[input.client].available = AccountBefore.available
        /\ trx[input.tx] = [prevTrx[input.tx] EXCEPT !.state = "Chargeback"]

\* C12 witness: a Withdrawal record of positive amount, never disputed, was
\* charged back.
C12_Witness ==
    /\ ChargebackOfLiveRecord
    /\ prevTrx[input.tx].transaction_type = "Withdrawal"
    /\ prevTrx[input.tx].state = "Ok"
    /\ Unwrap(prevTrx[input.tx].amount) > 0
    /\ accounts[input.client].locked

\* The sum of the amounts of the records ids of the record map txs.
RECURSIVE SumAmounts(_, _)
SumAmounts(txs, ids) ==
    IF ids = {} THEN 0
    ELSE LET t == CHOOSE x \in ids : TRUE IN
         Unwrap(txs[t].amount) + SumAmounts(txs, ids \ {t})

\* The stored records of client c of the given type in the record map txs.
RecordsOf(txs, c, type) ==
    {t \in DOMAIN txs : txs[t].client = c /\ txs[t].transaction_type = type}

\* Accepted deposits minus accepted withdrawals of client c, record r left
\* out.  The stored records are the accepted Deposits and Withdrawals.
NetWithout(txs, c, r) ==
    SumAmounts(txs, RecordsOf(txs, c, "Deposit") \ {r})
        - SumAmounts(txs, RecordsOf(txs, c, "Withdrawal") \ {r})

\* C13: right after an accepted Chargeback of record r, the total of the
\* account equals the accepted deposits minus the accepted withdrawals of
\* that client with r left out, for r a Deposit or a Withdrawal.
C13_ChargebackReversesTotal ==
    (Accepted /\ input.transaction_type = "Chargeback") =>
        accounts[input.client].total = NetWithout(trx, input.client, input.tx)

\* C13 for a Deposit record only: the part of the claim the code satisfies.
C13_ChargebackReversesDeposit ==
    (/\ Accepted
     /\ input.transaction_type = "Chargeback"
     /\ trx[input.tx].transaction_type = "Deposit") =>
        accounts[input.client].total = NetWithout(trx, input.client, input.tx)

\* What the code does for a Withdrawal record r of amount a: total ends at
\* the net with r left out minus 2 * a (the withdrawal is taken a second time
\* instead of being given back).
C13_ChargebackDoublesWithdrawal ==
    (/\ Accepted
     /\ input.transaction_type = "Chargeback"
     /\ trx[input.tx].transaction_type = "Withdrawal") =>
        accounts[input.client].total =
            NetWithout(trx, input.client, input.tx)
                - 2 * Unwrap(trx[input.tx].amount)

\* The last record is a Dispute naming a stored Deposit record of its own
\* client in state Ok, and the client's account is unlocked.
DisputeOfOkDeposit ==
    /\ Called
    /\ input.transaction_type = "Dispute"
    /\ input.tx \in DOMAIN prevTrx
    /\ prevTrx[input.tx].client = input.client
    /\ prevTrx[input.tx].transaction_type = "Deposit"
    /\ prevTrx[input.tx].state = "Ok"
    /\ ~AccountBefore.locked

\* C14: a Dispute of a stored Deposit record in state Ok, with matching
\* client and an unlocked account, is accepted whatever the available
\* balance: available decreases by the stored amount, held increases by it,
\* total and locked are unchanged, and the record becomes Disputed.
C14_DisputeEffect ==
    DisputeOfOkDeposit =>
        LET a == Unwrap(prevTrx[input.tx].amount) IN
        /\ Accepted
        /\ accounts[input.client] =
              [AccountBefore EXCEPT !.available = @ - a, !.held = @ + a]
        /\ accounts[input.client].total = AccountBefore.total
        /\ accounts[input.client].locked = AccountBefore.locked
        /\ trx[input.tx] = [prevTrx[input.tx] EXCEPT !.state = "Disputed"]

\* C14 witness: the disputed amount was above the available balance, and the
\* Dispute left available negative.
C14_Witness ==
    /\ DisputeOfOkDeposit
    /\ Unwrap(prevTrx[input.tx].amount) > AccountBefore.available
    /\ accounts[input.client].available < 0
    /\ trx[input.tx].state = "Disputed"

\* The last record is a Resolve naming a stored record of its own client that
\* is under dispute, and the client's account is unlocked.
ResolveOfDisputed ==
    /\ Called
    /\ input.transaction_type = "Resolve"
    /\ input.tx \in DOMAIN prevTrx
    /\ prevTrx[input.tx].client = input.client
    /\ prevTrx[input.tx].state = "Disputed"
    /\ ~AccountBefore.locked

\* C15: right after an accepted Dispute(c, t), a Resolve(c, t) (whatever
\* amount it carries) is accepted and leaves the account map and the record
\* map exactly as they were before the Dispute, so that every later record is
\* processed from the very ledger it would have met without the dispute; and
\* every Resolve of a record under dispute on an unlocked account gives back
\* what the Dispute moved: available + a, held - a, record state Ok.
C15_DisputeResolveRoundTrip ==
    /\ (Accepted /\ input.transaction_type = "Dispute") =>
          \A am \in Amounts :
              LET back == process_trx_outcome(accounts, trx,
                              [transaction_type |-> "Resolve",
                               client |-> input.client, tx |-> input.tx,
                               amount |-> am]) IN
              /\ back.res = "Ok"
              /\ back.accounts = prevAccounts
              /\ back.trx = prevTrx
    /\ ResolveOfDisputed =>
          LET a == Unwrap(prevTrx[input.tx].amount) IN
          /\ Accepted
          /\ accounts[input.client] =
                [AccountBefore EXCEPT !.available = @ + a, !.held = @ - a]
          /\ trx[input.tx] = [prevTrx[input.tx] EXCEPT !.state = "Ok"]
          /\ \A c \in (DOMAIN prevAccounts) \ {input.client} :
                accounts[c] = prevAccounts[c]
          /\ \A t \in (DOMAIN prevTrx) \ {input.tx} : trx[t] = prevTrx[t]

\* C15 witness: a Dispute of a positive amount was accepted on an account
\* with a withdrawal behind it, so that the Resolve has something to undo.
C15_Witness ==
    /\ Accepted
    /\ input.transaction_type = "Dispute"
    /\ Unwrap(prevTrx[input.tx].amount) > 0
    /\ accounts[input.client].held > 0
    /\ accounts[input.client].available < 0
    /\ trx[input.tx].state = "Disputed"

\* The ledger after the first k records of Deposit(c, t, a), Dispute(c, t),
\* Chargeback(c, t) on a fresh ledger, as the claim states it.
UndoneDepositLedger(k, c, t, a) ==
    CASE k = 0 -> [accounts |-> EmptyMap, trx |-> EmptyMap]
      [] k = 1 -> OneDepositLedger(c, t, a, AccountWith(c, a, 0, a, FALSE), "Ok")
      [] k = 2 -> OneDepositLedger(c, t, a, AccountWith(c, 0, a, a, FALSE),
                                   "Disputed")
      [] k = 3 -> OneDepositLedger(c, t, a, AccountWith(c, 0, 0, 0, TRUE),
                                   "Chargeback")

\* The type of the k-th record of that sequence.
UndoneDepositType(k) ==
    CASE k = 1 -> "Deposit"
      [] k = 2 -> "Dispute"
      [] k = 3 -> "Chargeback"

\* The last call processed the k-th record of the sequence on the ledger its
\* first k - 1 records leave.
UndoneDepositStep(k, c, t, a) ==
    /\ Called
    /\ prevAccounts = UndoneDepositLedger(k - 1, c, t, a).accounts
    /\ prevTrx = UndoneDepositLedger(k - 1, c, t, a).trx
    /\ input.transaction_type = UndoneDepositType(k)
    /\ input.client = c
    /\ input.tx = t
    /\ (k = 1 => input.amount = Some(a))

\* C16: (1) right after an accepted Dispute of a Deposit record of amount a,
\* a Chargeback of that record is accepted and leaves the account at its
\* values of before the Dispute with available - a, total - a, held unchanged,
\* and locked; (2) an accepted Chargeback of a record under dispute, whenever
\* it comes, takes a from held and from total and nothing from available,
\* which with the Dispute's available - a, held + a gives the same sum; (3) on
\* a fresh ledger Deposit, Dispute, Chargeback are accepted in turn and end at
\* available = held = total = 0, locked, with the one stored record in
\* Chargeback.
C16_DisputeChargebackUndoesDeposit ==
    /\ (Accepted /\ input.transaction_type = "Dispute") =>
          \A am \in Amounts :
              LET a == Unwrap(prevTrx[input.tx].amount)
                  out == process_trx_outcome(accounts, trx,
                             [transaction_type |-> "Chargeback",
                              client |-> input.client, tx |-> input.tx,
                              amount |-> am]) IN
              /\ out.res = "Ok"
              /\ out.accounts[input.client] =
                    [prevAccounts[input.client] EXCEPT
                        !.available = @ - a, !.total = @ - a,
                        !.locked = TRUE]
              /\ out.accounts[input.client].held =
                    prevAccounts[input.client].held
              /\ out.trx[input.tx].state = "Chargeback"
    /\ (ChargebackOfLiveRecord /\ prevTrx[input.tx].state = "Disputed") =>
          LET a == Unwrap(prevTrx[input.tx].amount) IN
          /\ Accepted
          /\ accounts[input.client].available = AccountBefore.available
          /\ accounts[input.client].held = AccountBefore.held - a
          /\ accounts[input.client].total = AccountBefore.total - a
    /\ \A c \in Clients : \A t \in TxIds : \A a \in 0..MaxAmount :
          \A k \in 1..3 :
              UndoneDepositStep(k, c, t, a) =>
                  /\ Accepted
                  /\ accounts = UndoneDepositLedger(k, c, t, a).accounts
                  /\ trx = UndoneDepositLedger(k, c, t, a).trx
                  /\ (k = 3 => DOMAIN trx = {t})

\* C16 witness: the Chargeback that ends Deposit, Dispute, Chargeback on a
\* fresh ledger was processed, for a positive amount.
C16_Witness ==
    \E c \in Clients : \E t \in TxIds : \E a \in 1..MaxAmount :
        /\ UndoneDepositStep(3, c, t, a)
        /\ accounts[c] = AccountWith(c, 0, 0, 0, TRUE)
        /\ trx[t].state = "Chargeback"

\* C17: a Dispute, Resolve or Chargeback whose tx id is not in the record map
\* fails with TrxNotFound, whatever the state of the client's account, and
\* changes no balance and no record.
C17_TrxNotFound ==
    (/\ Called
     /\ input.transaction_type \in {"Dispute", "Resolve", "Chargeback"}
     /\ input.tx \notin DOMAIN prevTrx)
    => /\ result = "TrxNotFound"
       /\ trx = prevTrx
       /\ OldAccountsUnchanged
       /\ accounts[input.client] = AccountBefore

\* C17 witness: a Chargeback of an unknown tx id reached a locked account
\* while another record was stored.
C17_Witness ==
    /\ LockedBefore
    /\ input.transaction_type = "Chargeback"
    /\ input.tx \notin DOMAIN prevTrx
    /\ prevTrx # EmptyMap
    /\ result = "TrxNotFound"

\* The last record is a Dispute, Resolve or Chargeback naming a stored record
\* of another client.
CrossClient ==
    /\ Called
    /\ input.transaction_type \in {"Dispute", "Resolve", "Chargeback"}
    /\ input.tx \in DOMAIN prevTrx
    /\ prevTrx[input.tx].client # input.client

\* C18: a Dispute, Resolve or Chargeback whose client differs from the client
\* of the stored record it names is rejected and changes neither that record
\* nor the account of the record's owner; the error is
\* TrxClientIdInconsistency for a Dispute or a Chargeback (record in any
\* state) and for a Resolve of a record under dispute.
C18_CrossClientIsolation ==
    CrossClient =>
        LET owner == prevTrx[input.tx].client IN
        /\ Rejected
        /\ trx = prevTrx
        /\ owner \in DOMAIN prevAccounts
        /\ accounts[owner] = prevAccounts[owner]
        /\ (\/ input.transaction_type \in {"Dispute", "Chargeback"}
            \/ prevTrx[input.tx].state = "Disputed")
           => result = "TrxClientIdInconsistency"

\* C18 witness: a client with an unlocked account sent a Resolve for another
\* client's record under dispute, of positive amount.
C18_Witness ==
    /\ CrossClient
    /\ input.transaction_type = "Resolve"
    /\ prevTrx[input.tx].state = "Disputed"
    /\ Unwrap(prevTrx[input.tx].amount) > 0
    /\ input.client \in DOMAIN prevAccounts
    /\ ~prevAccounts[input.client].locked
    /\ result = "TrxClientIdInconsistency"

DisputedOf(txs, c) ==
    {t \in DOMAIN txs : txs[t].client = c /\ txs[t].state = "Disputed"}

\* C20: a Dispute naming a Deposit record of its own client that is in state
\* Disputed or Chargeback is rejected with TrxNotInDisputableState and
\* changes no account and no record; a Dispute is accepted only for a record
\* in state Ok, and no account holds more than the amounts of its client's
\* records under dispute, each counted once.
C20_NoDoubleDispute ==
    /\ (/\ Called
        /\ input.transaction_type = "Dispute"
        /\ input.tx \in DOMAIN prevTrx
        /\ prevTrx[input.tx].client = input.client
        /\ prevTrx[input.tx].transaction_type = "Deposit"
        /\ prevTrx[input.tx].state \in {"Disputed", "Chargeback"})
       => /\ result = "TrxNotInDisputableState"
          /\ accounts = prevAccounts
          /\ trx = prevTrx
    /\ (Accepted /\ input.transaction_type = "Dispute")
       => prevTrx[input.tx].state = "Ok"
    /\ \A c \in DOMAIN accounts :
          accounts[c].held <= SumAmounts(trx, DisputedOf(trx, c))

\* C20 witness: a second Dispute named a Deposit record of positive amount
\* already under dispute, on an unlocked account.
C20_Witness ==
    /\ Called
    /\ input.transaction_type = "Dispute"
    /\ input.tx \in DOMAIN prevTrx
    /\ prevTrx[input.tx].client = input.client
    /\ prevTrx[input.tx].transaction_type = "Deposit"
    /\ prevTrx[input.tx].state = "Disputed"
    /\ Unwrap(prevTrx[input.tx].amount) > 0
    /\ ~prevAccounts[input.client].locked
    /\ result = "TrxNotInDisputableState"

\* The last record is a Resolve naming a stored record that is not under
\* dispute.
ResolveOfUndisputed ==
    /\ Called
    /\ input.transaction_type = "Resolve"
    /\ input.tx \in DOMAIN prevTrx
    /\ prevTrx[input.tx].state \in {"Ok", "Chargeback"}

\* C21 as claimed: a Resolve naming a stored record in state Ok or Chargeback
\* is rejected with TrxNotInDispute and changes nothing.
C21_UndisputedResolveChangesNothing ==
    ResolveOfUndisputed =>
        /\ result = "TrxNotInDispute"
        /\ accounts = prevAccounts
        /\ trx = prevTrx

\* C21 amended: a Resolve naming a stored record in state Ok or Chargeback is
\* rejected with TrxNotInDispute; it changes no record and no existing
\* account, and adds only the zero account of its client when that client had
\* none.  A Resolve is accepted only for a record in state Disputed, and on
\* an unlocked account held is never below the amounts of the client's
\* records under dispute (nothing is released twice).
C21_ResolveRequiresDispute ==
    /\ ResolveOfUndisputed =>
          /\ result = "TrxNotInDispute"
          /\ trx = prevTrx
          /\ OldAccountsUnchanged
          /\ DOMAIN accounts = (DOMAIN prevAccounts) \cup {input.client}
          /\ accounts[input.client] = AccountBefore
    /\ (Accepted /\ input.transaction_type = "Resolve")
       => prevTrx[input.tx].state = "Disputed"
    /\ \A c \in DOMAIN accounts :
          ~accounts[c].locked
          => accounts[c].held >= SumAmounts(trx, DisputedOf(trx, c))

\* C21 witness: a Resolve named a stored record of positive amount in state
\* Ok, and its client had no account yet.
C21_Witness ==
    /\ ResolveOfUndisputed
    /\ prevTrx[input.tx].state = "Ok"
    /\ Unwrap(prevTrx[input.tx].amount) > 0
    /\ input.client \notin DOMAIN prevAccounts
    /\ accounts[input.client] = Account_new(input.client)
    /\ result = "TrxNotInDispute"

\* The last record is a Chargeback naming a stored record of positive amount
\* of its own client that is in state Ok, and the client's account is
\* unlocked.
ChargebackOfOkRecord ==
    /\ ChargebackOfLiveRecord
    /\ prevTrx[input.tx].state = "Ok"
    /\ Unwrap(prevTrx[input.tx].amount) > 0

\* C22 as claimed: a Chargeback of a record in state Ok is accepted and
\* leaves held negative.
C22_OkChargebackLeavesHeldNegative ==
    ChargebackOfOkRecord =>
        /\ Accepted
        /\ accounts[input.client].held < 0

\* C22 amended: a Dispute of an Ok Deposit record whose amount exceeds the
\* available balance of its unlocked account is accepted and leaves available
\* negative; a Chargeback of a record in state Ok on an unlocked account is
\* accepted and lowers held by the record's amount, which leaves held
\* negative exactly when held was below that amount, as it is when no other
\* record of the client is under dispute.
C22_NegativeBalances ==
    /\ (/\ DisputeOfOkDeposit
        /\ Unwrap(prevTrx[input.tx].amount) > AccountBefore.available)
       => /\ Accepted
          /\ accounts[input.client].available =
                AccountBefore.available - Unwrap(prevTrx[input.tx].amount)
          /\ accounts[input.client].available < 0
    /\ ChargebackOfOkRecord =>
          LET a == Unwrap(prevTrx[input.tx].amount) IN
          /\ Accepted
          /\ accounts[input.client].held = AccountBefore.held - a
          /\ accounts[input.client].held < 0 <=> AccountBefore.held < a
          /\ DisputedOf(prevTrx, input.client) = {}
             => accounts[input.client].held < 0

\* C22 witness: a Deposit record was charged back in state Ok while no record
\* of its client was under dispute, leaving held negative with available
\* positive.
C22_Witness ==
    /\ ChargebackOfOkRecord
    /\ prevTrx[input.tx].transaction_type = "Deposit"
    /\ DisputedOf(prevTrx, input.client) = {}
    /\ Accepted
    /\ accounts[input.client].held < 0
    /\ accounts[input.client].available > 0

\* The Inputs of the lines that decoded, in the order of the lines.
RECURSIVE WellFormed(_)
WellFormed(lines) ==
    IF lines = << >> THEN << >>
    ELSE LET rest == WellFormed(SubSeq(lines, 1, Len(lines) - 1))
             last == lines[Len(lines)] IN
         IF last = DeserializeErr THEN rest ELSE Append(rest, last[1])

\* The ledger after process_trx has been applied to each Input of ins in
\* order, from an empty ledger, whatever each call returned.
RECURSIVE FoldLedger(_)
FoldLedger(ins) ==
    IF ins = << >> THEN Outcome("None", EmptyMap, EmptyMap)
    ELSE LET before == FoldLedger(SubSeq(ins, 1, Len(ins) - 1)) IN
         process_trx_outcome(before.accounts, before.trx, ins[Len(ins)])

\* C23 (safety part): at every point of a run of the driver, the Inputs
\* handed to process_trx are exactly the decoded lines read so far, each once
\* and in input order, and the ledger is the fold of process_trx over them
\* with errors ignored; nothing is written before the input is exhausted, and
\* what is written is the full account set of the fold over all decoded
\* lines of the file.
DriverFoldsInput ==
    /\ pc \in {"loop", "done"}
    /\ pos \in 0..Len(rdr)
    /\ passed = WellFormed(SubSeq(rdr, 1, pos))
    /\ accounts = FoldLedger(passed).accounts
    /\ trx = FoldLedger(passed).trx
    /\ pc = "loop" => output = {}
    /\ pc = "done" =>
          /\ pos = Len(rdr)
          /\ output = AccountRows(FoldLedger(WellFormed(rdr)).accounts)
          /\ Cardinality(output) = Cardinality(DOMAIN accounts)

\* C23: for any finite input the driver hands every decoded line to the
\* ledger exactly once and in input order, goes on after every rejection and
\* every line that failed to decode, and terminates having written the full
\* account set, which is the fold of process_trx over the decoded lines.
C23_PerRecordFailuresNonFatal ==
    /\ []DriverFoldsInput
    /\ <>(pc = "done")

\* C23 witness: the driver finished a file whose first line failed to decode,
\* whose second line was rejected by the ledger and whose third line was
\* accepted, and wrote the accounts of two clients.
C23_Witness ==
    /\ pc = "done"
    /\ Len(rdr) = MaxLines
    /\ rdr[1] = DeserializeErr
    /\ Len(passed) = 2
    /\ FoldLedger(SubSeq(passed, 1, 1)).res # "Ok"
    /\ result = "Ok"
    /\ Cardinality(output) = 2

\* The result the stated precedence gives the last record, a Deposit or a
\* Withdrawal: the error of the first failing check, or Ok when none fails.
FirstFailingCheck ==
    IF input.tx \in DOMAIN prevTrx THEN "TrxAlreadyProcessed"
    ELSE IF ~IsSome(input.amount) THEN "TrxInvalidAmount"
    ELSE IF Unwrap(input.amount) < 0 THEN "NegativeAmount"
    ELSE IF AccountBefore.locked THEN "AccountLocked"
    ELSE IF /\ input.transaction_type = "Withdrawal"
            /\ Unwrap(input.amount) > AccountBefore.available
    THEN "InsufficientFunds"
    ELSE "Ok"

\* C24: a Deposit or Withdrawal returns exactly the error of the first
\* failing check in the order TrxAlreadyProcessed, TrxInvalidAmount,
\* NegativeAmount, AccountLocked, InsufficientFunds (Withdrawal only), and is
\* accepted when no check fails.
C24_ErrorPrecedence ==
    (Called /\ input.transaction_type \in {"Deposit", "Withdrawal"})
    => result = FirstFailingCheck

\* C24 witness: a Withdrawal with no amount named a stored tx id on a locked
\* account, so three of the checks had a reason to fail, and the first one
\* gave the error.
C24_Witness ==
    /\ LockedBefore
    /\ input.transaction_type = "Withdrawal"
    /\ input.tx \in DOMAIN prevTrx
    /\ ~IsSome(input.amount)
    /\ result = "TrxAlreadyProcessed"

\* C25: a Resolve whose client differs from the stored record's client
\* returns TrxNotInDispute when the record is not Disputed and
\* TrxClientIdInconsistency when it is; a Dispute or Chargeback whose client
\* differs returns TrxClientIdInconsistency for a record in any state.
C25_ResolveStateBeforeClient ==
    CrossClient =>
        result =
            IF /\ input.transaction_type = "Resolve"
               /\ prevTrx[input.tx].state # "Disputed"
            THEN "TrxNotInDispute"
            ELSE "TrxClientIdInconsistency"

\* C25 witness: a Resolve named a charged back record of another client and
\* was rejected with TrxNotInDispute.
C25_Witness ==
    /\ CrossClient
    /\ input.transaction_type = "Resolve"
    /\ prevTrx[input.tx].state = "Chargeback"
    /\ result = "TrxNotInDispute"

\* The last record is a Deposit or a Withdrawal.
DepositOrWithdrawal ==
    Called /\ input.transaction_type \in {"Deposit", "Withdrawal"}

\* C26: a tx id is in the record map if and only if a Deposit or Withdrawal
\* with that id was accepted, and at most one per tx id ever is; a rejected
\* Deposit or Withdrawal stores nothing, so that a later Deposit with the
\* same fresh id is accepted for any client whose account is not locked.
C26_StoredOnlyOnSuccess ==
    /\ \A t \in TxIds :
          /\ t \in DOMAIN trx <=> acceptedCount[t] >= 1
          /\ acceptedCount[t] <= 1
    /\ (DepositOrWithdrawal /\ Accepted)
       => /\ input.tx \notin DOMAIN prevTrx
          /\ trx = MapInsert(prevTrx, input.tx, Transaction_new(input))
    /\ (DepositOrWithdrawal /\ Rejected)
       => /\ trx = prevTrx
          /\ input.tx \notin DOMAIN prevTrx =>
                \A c \in Clients :
                    (c \in DOMAIN accounts => ~accounts[c].locked)
                    => process_trx_outcome(accounts, trx,
                          [transaction_type |-> "Deposit", client |-> c,
                           tx |-> input.tx, amount |-> Some(MaxAmount)]).res
                       = "Ok"

\* C26 witness: a Withdrawal with a fresh tx id was rejected for insufficient
\* funds while another record was stored; its id is not in the record map
\* and no record with that id has been accepted.
C26_Witness ==
    /\ DepositOrWithdrawal
    /\ result = "InsufficientFunds"
    /\ input.tx \notin DOMAIN trx
    /\ acceptedCount[input.tx] = 0
    /\ \E t \in DOMAIN trx : acceptedCount[t] = 1
    /\ ~accounts[input.client].locked

\* The Inputs that name neither the client nor the tx id of the last record.
Unrelated ==
    {r \in Input : r.client # input.client /\ r.tx # input.tx}

\* C27: from any reachable ledger state, two records of different clients
\* and different tx ids commute.  The last call processed r1 = input from the
\* ledger (prevAccounts, prevTrx); for every r2 unrelated to it, r2 processed
\* now (r1 then r2) and r1 processed after r2 from that same ledger (r2 then
\* r1) end in the same account map and the same record map, and each record
\* gets the same result in both orders.
C27_UnrelatedRecordsCommute ==
    Called =>
        \A r2 \in Unrelated :
            LET r1r2 == process_trx_outcome(accounts, trx, r2)
                alone == process_trx_outcome(prevAccounts, prevTrx, r2)
                r2r1 == process_trx_outcome(alone.accounts, alone.trx, input)
            IN /\ r1r2.accounts = r2r1.accounts
               /\ r1r2.trx = r2r1.trx
               /\ r1r2.res = alone.res
               /\ r2r1.res = result

\* C27 witness: an accepted Chargeback locked one client's account, and a
\* Dispute of another client's record with another tx id is accepted next,
\* so both records change the ledger.
C27_Witness ==
    /\ Accepted
    /\ input.transaction_type = "Chargeback"
    /\ Unwrap(prevTrx[input.tx].amount) > 0
    /\ \E r2 \in Unrelated :
          /\ r2.transaction_type = "Dispute"
          /\ process_trx_outcome(accounts, trx, r2).res = "Ok"
          /\ Unwrap(trx[r2.tx].amount) > 0

\* C28: a stored record is never removed or replaced, and its type, client
\* and amount never change; its state changes only in an accepted Dispute,
\* Resolve or Chargeback that names its tx id.
C28_RecordsImmutableButState ==
    Called =>
        \A t \in DOMAIN prevTrx :
            /\ t \in DOMAIN trx
            /\ trx[t].transaction_type = prevTrx[t].transaction_type
            /\ trx[t].client = prevTrx[t].client
            /\ trx[t].amount = prevTrx[t].amount
            /\ trx[t].state # prevTrx[t].state
               => /\ Accepted
                  /\ input.transaction_type
                        \in {"Dispute", "Resolve", "Chargeback"}
                  /\ input.tx = t

\* C28 witness: an accepted Chargeback changed the state of a record of
\* positive amount while another record, under dispute, was stored.
C28_Witness ==
    /\ Accepted
    /\ input.transaction_type = "Chargeback"
    /\ trx[input.tx].state # prevTrx[input.tx].state
    /\ Unwrap(trx[input.tx].amount) > 0
    /\ \E t \in DOMAIN trx : t # input.tx /\ trx[t].state = "Disputed"

\* C29: an accepted record changes no account but the one of its own client
\* and no record but the one keyed by its tx id: a Deposit or Withdrawal
\* inserts that record, a Dispute, Resolve or Chargeback changes only its
\* state; every other account and record is as it was.
C29_FrameOfAccepted ==
    Accepted =>
        /\ DOMAIN accounts = (DOMAIN prevAccounts) \cup {input.client}
        /\ \A c \in (DOMAIN accounts) \ {input.client} :
              accounts[c] = prevAccounts[c]
        /\ DOMAIN trx = (DOMAIN prevTrx) \cup {input.tx}
        /\ \A t \in (DOMAIN trx) \ {input.tx} : trx[t] = prevTrx[t]
        /\ IF input.transaction_type \in {"Deposit", "Withdrawal"}
           THEN /\ input.tx \notin DOMAIN prevTrx
                /\ trx[input.tx] = Transaction_new(input)
           ELSE /\ input.tx \in DOMAIN prevTrx
                /\ \E s \in State :
                      trx[input.tx] = [prevTrx[input.tx] EXCEPT !.state = s]

\* C29 witness: an accepted Dispute changed its client's account while
\* another client had an account with funds and a stored record.
C29_Witness ==
    /\ Accepted
    /\ input.transaction_type = "Dispute"
    /\ accounts[input.client] # prevAccounts[input.client]
    /\ \E c \in DOMAIN accounts : c # input.client /\ accounts[c].total > 0
    /\ \E t \in DOMAIN trx :
          t # input.tx /\ trx[t].client # input.client

\* C30: every stored record has type Deposit or Withdrawal and an amount
\* that is present and not negative, and is stored with the client, type and
\* amount of the record that created it; a Dispute, Resolve or Chargeback
\* never returns TrxInvalidAmount or NegativeAmount, and TrxNotDisputable is
\* returned only by a Dispute of a stored Withdrawal.
C30_StoredRecordShape ==
    /\ \A t \in DOMAIN trx :
          /\ trx[t].transaction_type \in {"Deposit", "Withdrawal"}
          /\ IsSome(trx[t].amount)
          /\ Unwrap(trx[t].amount) >= 0
    /\ \A t \in (DOMAIN trx) \ (DOMAIN prevTrx) :
          /\ t = input.tx
          /\ trx[t].client = input.client
          /\ trx[t].transaction_type = input.transaction_type
          /\ trx[t].amount = input.amount
    /\ (Called /\ input.transaction_type \in {"Dispute", "Resolve", "Chargeback"})
       => result \notin {"TrxInvalidAmount", "NegativeAmount"}
    /\ result = "TrxNotDisputable"
       => /\ input.transaction_type = "Dispute"
          /\ prevTrx[input.tx].transaction_type = "Withdrawal"

\* C30 witness: a Withdrawal of a positive amount was accepted and stored
\* beside the stored Deposit of a positive amount of the same client.
C30_Witness ==
    /\ Accepted
    /\ input.transaction_type = "Withdrawal"
    /\ Unwrap(trx[input.tx].amount) > 0
    /\ trx[input.tx].client = input.client
    /\ \E t \in DOMAIN trx :
          /\ trx[t].transaction_type = "Deposit"
          /\ trx[t].client = input.client
          /\ Unwrap(trx[t].amount) > 0

\* C31: in every reachable state, the held of every unlocked account equals
\* the sum of the amounts of its client's stored records in state Disputed,
\* and so is not negative.
C31_HeldMatchesOpenDisputes ==
    \A c \in DOMAIN accounts :
        ~accounts[c].locked
        => /\ accounts[c].held = SumAmounts(trx, DisputedOf(trx, c))
           /\ accounts[c].held >= 0

\* C31 witness: after an accepted Dispute, an unlocked account holds the
\* amounts of the two records of its client that are under dispute.
C31_Witness ==
    /\ Accepted
    /\ input.transaction_type = "Dispute"
    /\ ~accounts[input.client].locked
    /\ Cardinality(DisputedOf(trx, input.client)) = 2
    /\ accounts[input.client].held = 2 * MaxAmount

\* The stored records of client c in state Chargeback in the record map txs.
ChargedBackOf(txs, c) ==
    {t \in DOMAIN txs : txs[t].client = c /\ txs[t].state = "Chargeback"}

\* C32: in every reachable state, the total of every account equals the
\* amounts of its client's stored Deposit records, minus those of its stored
\* Withdrawal records, minus those of its stored records in state
\* Chargeback; an accepted Dispute or Resolve leaves total as it was.
C32_ConservationOfTotal ==
    /\ \A c \in DOMAIN accounts :
          accounts[c].total =
              SumAmounts(trx, RecordsOf(trx, c, "Deposit"))
                  - SumAmounts(trx, RecordsOf(trx, c, "Withdrawal"))
                  - SumAmounts(trx, ChargedBackOf(trx, c))
    /\ (Accepted /\ input.transaction_type \in {"Dispute", "Resolve"})
       => accounts[input.client].total = prevAccounts[input.client].total

\* C32 witness: an account whose client has a stored Deposit and a stored
\* Withdrawal of the same positive amount, the Withdrawal charged back, has
\* a negative total.
C32_Witness ==
    \E c \in DOMAIN accounts :
        /\ accounts[c].total < 0
        /\ RecordsOf(trx, c, "Deposit") # {}
        /\ \E t \in RecordsOf(trx, c, "Withdrawal") :
              trx[t].state = "Chargeback" /\ Unwrap(trx[t].amount) > 0

\* C33: in every reachable state an account is locked if and only if exactly
\* one stored record of its client is in state Chargeback; no client has two
\* such records, and a client with an unlocked account, or with none, has
\* no such record.
C33_LockChargebackCoincide ==
    /\ \A c \in DOMAIN accounts :
          /\ accounts[c].locked <=> Cardinality(ChargedBackOf(trx, c)) = 1
          /\ Cardinality(ChargedBackOf(trx, c)) <= 1
          /\ ~accounts[c].locked => ChargedBackOf(trx, c) = {}
    /\ \A t \in DOMAIN trx :
          trx[t].state = "Chargeback" => trx[t].client \in DOMAIN accounts

\* C33 witness: a client with two stored records has a locked account and
\* exactly one of the records charged back, the other still under dispute.
C33_Witness ==
    \E c \in DOMAIN accounts :
        /\ accounts[c].locked
        /\ Cardinality(ChargedBackOf(trx, c)) = 1
        /\ Cardinality(DisputedOf(trx, c)) = 1

\* The last record is a Dispute, Resolve or Chargeback.
DisputeLifecycle ==
    Called /\ input.transaction_type \in {"Dispute", "Resolve", "Chargeback"}

\* C34: the amount carried by a Dispute, Resolve or Chargeback is ignored.
\* From the ledger the last such record was processed from, the same record
\* with any other amount field gives the same result and the same two maps;
\* when it is accepted, the amount moved in the account is the stored
\* record's amount.
C34_LifecycleAmountIgnored ==
    DisputeLifecycle =>
        /\ \A a \in Amounts :
              LET other == process_trx_outcome(prevAccounts, prevTrx,
                                               [input EXCEPT !.amount = a])
              IN /\ other.res = result
                 /\ other.accounts = accounts
                 /\ other.trx = trx
        /\ Accepted =>
              LET stored == Unwrap(prevTrx[input.tx].amount)
                  before == prevAccounts[input.client]
                  after == accounts[input.client]
              IN CASE input.transaction_type = "Dispute" ->
                        /\ after.available = before.available - stored
                        /\ after.held = before.held + stored
                   [] input.transaction_type = "Resolve" ->
                        /\ after.available = before.available + stored
                        /\ after.held = before.held - stored
                   [] input.transaction_type = "Chargeback" ->
                        /\ after.total = before.total - stored
                        /\ after.held = before.held - stored

\* C34 witness: an accepted Dispute carried a negative amount and named a
\* stored record of positive amount.
C34_Witness ==
    /\ DisputeLifecycle
    /\ Accepted
    /\ input.transaction_type = "Dispute"
    /\ IsSome(input.amount)
    /\ Unwrap(input.amount) < 0
    /\ Unwrap(prevTrx[input.tx].amount) > 0

\* C35: a step that takes the available of an account from a value that is
\* not negative to a negative one is an accepted Dispute of that account's
\* client; an accepted Withdrawal leaves available not negative.
C35_AvailableNegativeOnlyByDispute ==
    /\ \A c \in DOMAIN accounts :
          LET before == IF c \in DOMAIN prevAccounts
                        THEN prevAccounts[c] ELSE Account_new(c)
          IN (before.available >= 0 /\ accounts[c].available < 0)
             => /\ Accepted
                /\ input.transaction_type = "Dispute"
                /\ input.client = c
    /\ (Accepted /\ input.transaction_type = "Withdrawal")
       => accounts[input.client].available >= 0

\* C35 witness: after an accepted Withdrawal had taken the deposited funds,
\* an accepted Dispute of the Deposit took available from zero to a negative
\* value.
C35_Witness ==
    /\ Accepted
    /\ input.transaction_type = "Dispute"
    /\ prevAccounts[input.client].available = 0
    /\ accounts[input.client].available < 0
    /\ \E t \in RecordsOf(trx, input.client, "Withdrawal") :
          Unwrap(trx[t].amount) > 0

=============================================================================
